---- MODULE Spec2Model ----
(***************************************************************************)
(* A model of pulseProp: the decomposition of a temporal pulse into        *)
(* frequency components (pulse.py), the per-frequency propagation driver   *)
(* (core.py), the reconstruction of the initial pulse (reconstruct.py) and *)
(* the plane lookup of load.py.                                            *)
(*                                                                         *)
(* Numbers.  Real quantities (times, frequencies, wavelengths) are exact   *)
(* rationals [n, d].  Complex quantities (field samples, Fourier           *)
(* coefficients) are exact elements of the cyclotomic field Q(zeta), zeta  *)
(* = exp(2 pi i / 12), written [z |-> <<a0,a1,a2,a3>>, d |-> den] for      *)
(* (a0 + a1 zeta + a2 zeta^2 + a3 zeta^3) / den.  Every N-th root of unity *)
(* with N dividing 12 is a power of zeta, so the DFT of length 2, 3 and 4  *)
(* and its inverse are computed exactly; i = zeta^3.                       *)
(***************************************************************************)
EXTENDS Integers, Sequences, FiniteSets, TLC

VARIABLES
    pc,        \* position of the calling script
    pulse,     \* the Pulse object (None before construction)
    source,    \* the source object: [kind, name, E]
    input,     \* the arguments the Pulse was constructed with
    args,      \* the arguments of the running pulsePropagate call
    i,         \* loop index of pulsePropagate
    disk,      \* the files and directories under savePath
    calls,     \* the invocations of fp.fourierPropagate, in order
    log,       \* the messages logged by pulsePropagate
    error,     \* the exception that reached the caller (NoError if none)
    recon,     \* the value returned by reconstructInitialPulse
    load,      \* the last loadZAtPlane call: its arguments, trace and result
    pathI,     \* getFpPath(savePath, idxI)
    pathJ,     \* getFpPath(savePath, idxJ)
    idxI,
    idxJ

vars == <<pc, pulse, source, input, args, i, disk, calls, log, error, recon,
          load, pathI, pathJ, idxI, idxJ>>

\* Python's None, and a value that is present; an exception is named by a
\* string, NoError when none was raised
None == <<>>
Some(x) == <<x>>
Val(o) == o[1]
NoError == "NoError"

----------------------------------------------------------------------------
(* Exact rational arithmetic *)

Abs(x) == IF x < 0 THEN -x ELSE x

RECURSIVE Euclid(_, _)
Euclid(a, b) == IF b = 0 THEN a ELSE Euclid(b, a % b)
GCD(a, b) == Euclid(Abs(a), Abs(b))

Rat(n, d) ==
    LET s == IF d < 0 THEN -1 ELSE 1
        g == GCD(Abs(n), Abs(d))
    IN  [n |-> s * (n \div g), d |-> s * (d \div g)]

RNeg(a) == [n |-> -a.n, d |-> a.d]
RAdd(a, b) == Rat(a.n * b.d + b.n * a.d, a.d * b.d)
RSub(a, b) == RAdd(a, RNeg(b))
RLess(a, b) == a.n * b.d < b.n * a.d
\* a * b, reduced crosswise before multiplying so that products stay small
RMul(a, b) ==
    LET g1 == GCD(Abs(a.n), b.d)
        g2 == GCD(Abs(b.n), a.d)
    IN  Rat((a.n \div g1) * (b.n \div g2), (a.d \div g2) * (b.d \div g1))
RInt(k) == [n |-> k, d |-> 1]

----------------------------------------------------------------------------
(* Exact complex arithmetic in Q(zeta), zeta^4 = zeta^2 - 1 *)

GCD4(z) == GCD(GCD(z[1], z[2]), GCD(z[3], z[4]))

Cx(z, d) ==
    LET g == GCD(GCD4(z), d)
    IN  [z |-> <<z[1] \div g, z[2] \div g, z[3] \div g, z[4] \div g>>,
         d |-> d \div g]

CZero == [z |-> <<0, 0, 0, 0>>, d |-> 1]
\* the Gaussian integer re + im*i  (i = zeta^3)
CGauss(re, im) == [z |-> <<re, 0, 0, im>>, d |-> 1]

ZAdd(x, y) == <<x[1] + y[1], x[2] + y[2], x[3] + y[3], x[4] + y[4]>>
ZScale(k, x) == <<k * x[1], k * x[2], k * x[3], k * x[4]>>
\* x * zeta
ZTimesZeta(x) == <<-x[4], x[1], x[2] + x[4], x[3]>>
RECURSIVE ZTimesZetaPow(_, _)
ZTimesZetaPow(x, j) == IF j = 0 THEN x ELSE ZTimesZetaPow(ZTimesZeta(x), j - 1)
ZMul(x, y) ==
    ZAdd(ZAdd(ZScale(x[1], y), ZScale(x[2], ZTimesZetaPow(y, 1))),
         ZAdd(ZScale(x[3], ZTimesZetaPow(y, 2)), ZScale(x[4], ZTimesZetaPow(y, 3))))

CAdd(a, b) == Cx(ZAdd(ZScale(b.d, a.z), ZScale(a.d, b.z)), a.d * b.d)
CMul(a, b) == Cx(ZMul(a.z, b.z), a.d * b.d)
\* the real number 1/n as a complex number
CInv(n) == [z |-> <<1, 0, 0, 0>>, d |-> n]
\* exp(sign * 1j * 2 * pi * num / N), for N dividing 12
CExp(sign, num, N) ==
    LET j == ((sign * num * (12 \div N)) % 12)
    IN  [z |-> ZTimesZetaPow(<<1, 0, 0, 0>>, j), d |-> 1]

----------------------------------------------------------------------------
(* Bounds of the model and the sets the inputs are drawn from *)

MaxAmp == 1          \* field samples E_t[m] are 0..MaxAmp or the imaginary unit
MaxDf == 4           \* Df_t is j/4 for j in 0..MaxDf
MaxIndex == 104      \* getFpPath is applied to indices 0..MaxIndex
MaxPlaneInd == 2     \* loadZAtPlane is given plane indices 0..MaxPlaneInd

\* speed of light in vacuum [m/s]
c == 299792458

NtValues == {1, 2, 3, 4}
DtValues == {Rat(1, 2), Rat(1, 1)}
LamValues == {Rat(4 * c, 1)}
DfValues == {Rat(j, 4) : j \in 0..MaxDf}
EVals == {CGauss(a, 0) : a \in 0..MaxAmp} \cup {CGauss(0, 1)}
SrcFields == {<<CGauss(1, 0), CGauss(0, 2)>>}
SourceKinds == {"independent", "dependent", "notSource"}
Planes == <<"source", "lens", "screen">>
RunOptions == {[threads |-> 1, cylSymmetry |-> FALSE], [threads |-> 4, cylSymmetry |-> TRUE]}
SavePaths == {<<"o", "u", "t">>, <<"r", "u", "n", "/">>, <<>>}
RunPaths == {<<"o", "u", "t">>}

----------------------------------------------------------------------------
(* numpy helpers.  Arrays are sequences; the element the code indexes     *)
(* with k is At(arr, k).                                                   *)

At(arr, k) == arr[k + 1]

\* A variant of arange that counts from one
arangeFromOne(n) == [k \in 1..n |-> k]

arange(n) == [k \in 1..n |-> k - 1]

\* numpy.fft.fftfreq(n, d): bins 0, 1, ..., (n-1)//2, -(n//2), ..., -1,
\* each times 1/(n*d)
fftfreq(n, d) ==
    LET val == RMul(Rat(1, n), Rat(d.d, d.n))
        N == ((n - 1) \div 2) + 1
    IN  [k \in 1..n |-> RMul(RInt(IF k - 1 < N THEN k - 1 ELSE k - 1 - n), val)]

\* arr[mask] for a boolean mask: the elements where the mask is set, in order
RECURSIVE MaskSelect(_, _)
MaskSelect(arr, mask) ==
    IF arr = <<>> THEN <<>>
    ELSE IF Head(mask) THEN <<Head(arr)>> \o MaskSelect(Tail(arr), Tail(mask))
         ELSE MaskSelect(Tail(arr), Tail(mask))

\* the sum of an array of complex numbers, accumulated from zero
RECURSIVE CSum(_)
CSum(terms) ==
    IF terms = <<>> THEN CZero
    ELSE CAdd(CSum(SubSeq(terms, 1, Len(terms) - 1)), terms[Len(terms)])

\* c / f for one frequency; numpy gives -inf for the bin f = -0.0
Wavelength(f) == IF f.n = 0 THEN [n |-> -1, d |-> 0] ELSE RMul(RInt(c), Rat(f.d, f.n))

----------------------------------------------------------------------------
(* pulse.py: class Pulse *)

isSource(src) == src.kind \in {"independent", "dependent"}
isIndependentOfWavelength(src) == src.kind = "independent"

\* The forward transform of pyfftw.builders.fftn along axis 0:
\* U[k] = sum_n E_t[n] exp(-2 pi i k n / Nt), unnormalised
calculateFieldCoefficients(E_t, Nt) ==
    [k \in 1..Nt |->
        CSum([n \in 1..Nt |-> CMul(E_t[n], CExp(-1, (k - 1) * (n - 1), Nt))])]

\* A variant of the window mask that keeps the bins on the boundary
WindowMaskClosed(ft_DFT, f_0, Df_t) ==
    [k \in 1..Len(ft_DFT) |->
        /\ ~RLess(RAdd(RNeg(f_0), Df_t), ft_DFT[k])
        /\ ~RLess(ft_DFT[k], RSub(RNeg(f_0), Df_t))]

\* The window mask of frequenciesFromTemporalPulse
WindowMask(ft_DFT, f_0, Df_t) ==
    [k \in 1..Len(ft_DFT) |->
        /\ RLess(ft_DFT[k], RAdd(RNeg(f_0), Df_t))
        /\ RLess(RSub(RNeg(f_0), Df_t), ft_DFT[k])]

\* The fields frequenciesFromTemporalPulse sets on self, and the U_t it
\* returns
frequenciesFromTemporalPulse(f_0, Df_t, t, E_t) ==
    LET Nt == Len(t)
        dt == RSub(At(t, 1), At(t, 0))
        ft_DFT == fftfreq(Nt, dt)
        sel == WindowMask(ft_DFT, f_0, Df_t)
        f_t == [k \in 1..Len(MaskSelect(ft_DFT, sel)) |-> RNeg(MaskSelect(ft_DFT, sel)[k])]
    IN  [Nt |-> Nt, dt |-> dt, f_t |-> f_t, Nf |-> Len(f_t),
         k_prop |-> MaskSelect(arange(Nt), sel),
         U_t |-> MaskSelect(calculateFieldCoefficients(E_t, Nt), sel)]

\* Pulse.__init__: the object, or the exception it raises
PulseInit(src, lam_0, name, Df_t, t, E_t, Nf, threads) ==
    IF ~isSource(src) THEN [ok |-> FALSE, err |-> "TypeError"]
    ELSE IF isIndependentOfWavelength(src) THEN
        IF t # None /\ E_t # None THEN
            IF Len(Val(t)) < 2 THEN [ok |-> FALSE, err |-> "IndexError"]
            ELSE
                LET f_0 == RMul(RInt(c), Rat(lam_0.d, lam_0.n))
                    r == frequenciesFromTemporalPulse(f_0, Df_t, Val(t), Val(E_t))
                IN  [ok |-> TRUE,
                     obj |-> [lam_0 |-> lam_0, name |-> name, f_0 |-> f_0,
                              Df_t |-> Df_t, threads |-> threads,
                              Nt |-> r.Nt, dt |-> r.dt, f_t |-> r.f_t,
                              Nf |-> r.Nf, k_prop |-> r.k_prop, U_t |-> r.U_t,
                              E_xy |-> src.E, t |-> Val(t), E_t |-> Val(E_t),
                              lam_t |-> [k \in 1..r.Nf |-> Wavelength(r.f_t[k])]]]
        \* f_t was never set: c / self.f_t
        ELSE [ok |-> FALSE, err |-> "AttributeError"]
    ELSE IF Nf # None THEN [ok |-> FALSE, err |-> "NotImplementedError"]
    ELSE [ok |-> FALSE, err |-> "AttributeError"]

\* Pulse.setSourceField: the source after the call
ArrScale(u, arr) == [k \in 1..Len(arr) |-> CMul(u, arr[k])]

\* A variant of setSourceField that scales the field the source holds
setSourceFieldAccumulating(self, src, idx) ==
    IF isIndependentOfWavelength(src)
    THEN [src EXCEPT !.E = ArrScale(At(self.U_t, idx), src.E)]
    ELSE src

setSourceField(self, src, idx) ==
    IF isIndependentOfWavelength(src)
    THEN [src EXCEPT !.E = ArrScale(At(self.U_t, idx), self.E_xy)]
    ELSE src

\* Pulse.getSaveData
getSaveData(self, src) ==
    [attr |-> [name |-> self.name, source |-> src.name, lam_0 |-> self.lam_0,
               f_0 |-> self.f_0, Df_t |-> self.Df_t, Nt |-> self.Nt,
               Nf |-> self.Nf, dt |-> self.dt],
     data |-> IF isIndependentOfWavelength(src)
              THEN [f_t |-> self.f_t, lam_t |-> self.lam_t, t |-> self.t,
                    E_t |-> self.E_t, U_t |-> self.U_t, k_prop |-> self.k_prop]
              ELSE [f_t |-> self.f_t, lam_t |-> self.lam_t]]

----------------------------------------------------------------------------
(* core.py: the propagation driver *)

DigitChars == <<"0", "1", "2", "3", "4", "5", "6", "7", "8", "9">>

RECURSIVE Decimal(_)
Decimal(n) ==
    IF n < 10 THEN <<DigitChars[n + 1]>>
    ELSE Decimal(n \div 10) \o <<DigitChars[(n % 10) + 1]>>

\* A variant of the index format that keeps the last two digits only
Format02dTruncated(n) == <<DigitChars[((n \div 10) % 10) + 1], DigitChars[(n % 10) + 1]>>

\* "{:02d}".format(n) for n >= 0: the decimal digits, zero-padded on the
\* left to a width of at least 2
Format02d(n) == IF Len(Decimal(n)) < 2 THEN <<"0">> \o Decimal(n) ELSE Decimal(n)

\* os.path.join(a, b) for a relative b
PathJoin(a, b) ==
    IF a = <<>> \/ a[Len(a)] = "/" THEN a \o b ELSE a \o <<"/">> \o b

getFpPath(savePath, idx) == PathJoin(savePath, <<"f", "_">> \o Format02d(idx))

SimulationFile(cylSymmetry) == [cylSymmetry |-> cylSymmetry]

\* The invocation fp.fourierPropagate(pulse.lam_t[i], planes, path_i,
\* threads=threads, cylSymmetry=cylSymmetry), with the field the source
\* holds when it is made
EngineCall(self, src, a, idx) ==
    [lam |-> At(self.lam_t, idx), planes |-> a.planes,
     path |-> getFpPath(a.savePath, idx), threads |-> a.threads,
     cylSymmetry |-> a.cylSymmetry, field |-> src.E]

\* A variant of the setup steps that carries on after a failure
AfterSetupIgnoring(ok, next) == next

\* Where pulsePropagate goes after createSimulationDirectory, saveSimulation
\* or savePulse returned (ok) or raised
AfterSetup(ok, next) == IF ok THEN next ELSE "raised"

\* A variant of the loop that carries on after the engine raised
AfterEngineSwallowing(ok) == "loop"

\* Where pulsePropagate goes after fp.fourierPropagate returned (ok) or raised
AfterEngine(ok) == IF ok THEN "loop" ELSE "raised"

\* A variant of the loop range that stops one short
InRangeShort(idx, N) == idx < N - 1

\* range(N) of the for loop: is there an iteration for idx
InRange(idx, N) == idx < N

----------------------------------------------------------------------------
(* reconstruct.py *)

\* A variant of reconstructInitialPulse without the 1/Nt normalisation
reconstructUnnormalised(pulseAttrs, pulseData) ==
    [mm \in 1..pulseAttrs.Nt |->
        CSum([j \in 1..pulseAttrs.Nf |->
                CMul(pulseData.U_t[j],
                     CExp(1, pulseData.k_prop[j] * (mm - 1), pulseAttrs.Nt))])]

\* reconstructInitialPulse, from the attributes and data of pulse.h5
reconstructInitialPulse(pulseAttrs, pulseData) ==
    LET Nt == pulseAttrs.Nt
        Nf == pulseAttrs.Nf
        U_t == pulseData.U_t
        k_prop == pulseData.k_prop
    IN  [mm \in 1..Nt |->
            CSum([j \in 1..Nf |-> CMul(CMul(CInv(Nt), U_t[j]),
                                        CExp(1, k_prop[j] * (mm - 1), Nt))])]

----------------------------------------------------------------------------
(* load.py, and the operations of the external engine it calls.  The      *)
(* engine's output directory holds the saved planes, a list of [name, z]. *)

RECURSIVE IndexOfName(_, _, _)
IndexOfName(planes, name, k) ==
    IF k > Len(planes) THEN -1
    ELSE IF planes[k].name = name THEN k - 1
    ELSE IndexOfName(planes, name, k + 1)

\* fp.load.getPlaneIndexFromName(fpPath, name)
getPlaneIndexFromName(fs, fpPath, name) ==
    IF fpPath \notin fs.dirs THEN [ok |-> FALSE, err |-> "FileNotFoundError"]
    ELSE IF IndexOfName(fs.planes, name, 1) < 0
         THEN [ok |-> FALSE, err |-> "EngineLookupError"]
         ELSE [ok |-> TRUE, ind |-> IndexOfName(fs.planes, name, 1)]

\* fp.load.loadPlane(fpPath, ind)
loadPlane(fs, fpPath, ind) ==
    IF fpPath \notin fs.dirs THEN [ok |-> FALSE, err |-> "FileNotFoundError"]
    ELSE IF ind >= Len(fs.planes) THEN [ok |-> FALSE, err |-> "EngineLookupError"]
    ELSE [ok |-> TRUE, attrs |-> [z |-> At(fs.planes, ind).z]]

\* A variant of the branch that tests the truth value of ind and name
PlaneBranchTruthy(ind, name) ==
    IF ind # None /\ Val(ind) # 0 THEN "index"
    ELSE IF name # None THEN "name" ELSE "neither"

\* Which branch of loadZAtPlane is taken
PlaneBranch(ind, name) ==
    IF ind # None THEN "index" ELSE IF name # None THEN "name" ELSE "neither"

\* loadZAtPlane: its result (z, or the exception) with the engine
\* operations it invoked: the names looked up and the indices loaded
loadZAtPlane(fs, savePath, ind, name) ==
    LET fpPath == getFpPath(savePath, 0)
        branch == PlaneBranch(ind, name)
        finish(k, lookups) ==
            LET r == loadPlane(fs, fpPath, k)
            IN  [lookups |-> lookups, loads |-> <<k>>,
                 z |-> IF r.ok THEN Some(r.attrs.z) ELSE None,
                 err |-> IF r.ok THEN NoError ELSE r.err]
        found == getPlaneIndexFromName(fs, fpPath, Val(name))
    IN  CASE branch = "index" -> finish(Val(ind), <<>>)
          [] branch = "name" ->
                IF found.ok THEN finish(found.ind, <<Val(name)>>)
                ELSE [lookups |-> <<Val(name)>>, loads |-> <<>>, z |-> None,
                      err |-> found.err]
          [] OTHER -> [lookups |-> <<>>, loads |-> <<>>, z |-> None,
                       err |-> "RuntimeError"]

----------------------------------------------------------------------------
(* The state machine: a script that constructs a Pulse, may set the source *)
(* field itself, runs pulsePropagate and then reconstructInitialPulse.     *)

TimeGrid(Nt, dt) == [m \in 1..Nt |-> RMul(RInt(m - 1), dt)]

TemporalInputs ==
    UNION {
        {[kind |-> "independent", lam_0 |-> lam, Df_t |-> Df, t |-> Some(TimeGrid(n, dt)),
          E_t |-> Some(e), Nf |-> None, srcE |-> f] :
            lam \in LamValues, Df \in DfValues, dt \in DtValues,
            e \in [1..n -> EVals], f \in SrcFields} : n \in NtValues }

OtherInputs ==
    {[kind |-> k, lam_0 |-> Rat(4 * c, 1), Df_t |-> Rat(1, 4), t |-> None,
      E_t |-> None, Nf |-> n, srcE |-> <<CGauss(1, 0), CGauss(0, 2)>>] :
        k \in SourceKinds, n \in {None, Some(2)}}

EmptyDisk == [root |-> FALSE, sim |-> None, pulse |-> None, dirs |-> {}, planes |-> <<>>]

\* What the engine saves for the planes it propagated through
SavedPlanes(planes) == [k \in 1..Len(planes) |-> [name |-> planes[k], z |-> 5 * k]]

Init ==
    /\ pc = "start"
    /\ pulse = None
    /\ source = None
    /\ input = None
    /\ args = None
    /\ i = 0
    /\ disk = EmptyDisk
    /\ calls = <<>>
    /\ log = <<>>
    /\ error = NoError
    /\ recon = None
    /\ load = None
    /\ pathI = None
    /\ pathJ = None
    /\ idxI = 0
    /\ idxJ = 0

\* pulse = Pulse(source, lam_0, name, Df_t, t, E_t, Nf)
Construct ==
    /\ pc = "start"
    /\ \E inp \in TemporalInputs \cup OtherInputs :
        LET src == [kind |-> inp.kind, name |-> "src", E |-> inp.srcE]
            r == PulseInit(src, inp.lam_0, "pulse", inp.Df_t, inp.t, inp.E_t, inp.Nf, 1)
        IN  /\ input' = inp
            /\ source' = src
            /\ IF r.ok
               THEN pulse' = r.obj /\ pc' = "constructed" /\ error' = error
               ELSE pulse' = pulse /\ pc' = "raised" /\ error' = r.err
    /\ UNCHANGED <<args, i, disk, calls, log, recon, load, pathI, pathJ, idxI, idxJ>>

\* pulse.setSourceField(Nf - 1), called by the script itself before the run
UserSetSourceField ==
    /\ pc = "constructed"
    /\ pulse.Nf > 0
    /\ source' = setSourceField(pulse, source, pulse.Nf - 1)
    /\ UNCHANGED <<pc, pulse, input, args, i, disk, calls, log, error, recon, load,
                   pathI, pathJ, idxI, idxJ>>

\* pulsePropagate(pulse, planes, savePath, threads, cylSymmetry) is entered
CallPulsePropagate ==
    /\ pc = "constructed"
    /\ \E sp \in RunPaths, opt \in RunOptions :
        args' = [planes |-> Planes, savePath |-> sp, threads |-> opt.threads,
                 cylSymmetry |-> opt.cylSymmetry, N |-> pulse.Nf]
    /\ pc' = "createSimulationDirectory"
    /\ UNCHANGED <<pulse, source, input, i, disk, calls, log, error, recon, load,
                   pathI, pathJ, idxI, idxJ>>

\* createSimulationDirectory(savePath); os.makedirs may raise
CreateSimulationDirectory ==
    /\ pc = "createSimulationDirectory"
    /\ \E ok \in BOOLEAN :
        /\ pc' = AfterSetup(ok, "saveSimulation")
        /\ disk' = IF ok THEN [disk EXCEPT !.root = TRUE] ELSE disk
        /\ error' = IF ok THEN error ELSE "OSError"
    /\ UNCHANGED <<pulse, source, input, args, i, calls, log, recon, load,
                   pathI, pathJ, idxI, idxJ>>

\* saveSimulation(savePath, cylSymmetry); open or json.dump may raise
SaveSimulation ==
    /\ pc = "saveSimulation"
    /\ \E ok \in BOOLEAN :
        /\ pc' = AfterSetup(ok, "savePulse")
        /\ disk' = IF ok THEN [disk EXCEPT !.sim = Some(SimulationFile(args.cylSymmetry))]
                   ELSE disk
        /\ error' = IF ok THEN error ELSE "OSError"
    /\ log' = Append(log, <<"Saving simulation input parameters.">>)
    /\ UNCHANGED <<pulse, source, input, args, i, calls, recon, load,
                   pathI, pathJ, idxI, idxJ>>

\* savePulse(pulse, savePath), then "Starting pulse propagation simulation."
SavePulse ==
    /\ pc = "savePulse"
    /\ \E ok \in BOOLEAN :
        /\ pc' = AfterSetup(ok, "loop")
        /\ disk' = IF ok THEN [disk EXCEPT !.pulse = Some(getSaveData(pulse, source))]
                   ELSE disk
        /\ error' = IF ok THEN error ELSE "OSError"
        /\ log' = IF ok
                  THEN log \o << <<"Saving pulse information">>,
                                 <<"Finished saving pulse information">>,
                                 <<"Starting pulse propagation simulation.">> >>
                  ELSE Append(log, <<"Saving pulse information">>)
    /\ i' = 0
    /\ UNCHANGED <<pulse, source, input, args, calls, recon, load,
                   pathI, pathJ, idxI, idxJ>>

\* One iteration of the for loop: getFpPath, setSourceField, then the
\* engine, which returns or raises
LoopIteration ==
    /\ pc = "loop"
    /\ InRange(i, args.N)
    /\ LET path_i == getFpPath(args.savePath, i)
           src == setSourceField(pulse, source, i)
       IN  /\ source' = src
           /\ calls' = Append(calls, EngineCall(pulse, src, args, i))
           /\ \E ok \in BOOLEAN, wrote \in BOOLEAN :
                /\ ok => wrote
                /\ pc' = AfterEngine(ok)
                /\ disk' = IF wrote
                           THEN [disk EXCEPT !.dirs = @ \cup {path_i},
                                             !.planes = SavedPlanes(args.planes)]
                           ELSE disk
                /\ error' = IF ok THEN error ELSE "EngineError"
                /\ i' = IF ok THEN i + 1 ELSE i
                /\ log' = IF ok
                          THEN log \o << <<"Propagating frequency", i + 1, args.N>>,
                                         <<"Finished propagating frequency", i + 1, args.N>> >>
                          ELSE Append(log, <<"Propagating frequency", i + 1, args.N>>)
    /\ UNCHANGED <<pulse, input, args, recon, load, pathI, pathJ, idxI, idxJ>>

\* The loop is exhausted: "Finished pulse propagation simulation"
LoopExit ==
    /\ pc = "loop"
    /\ ~InRange(i, args.N)
    /\ pc' = "finished"
    /\ log' = Append(log, <<"Finished pulse propagation simulation">>)
    /\ UNCHANGED <<pulse, source, input, args, i, disk, calls, error, recon, load,
                   pathI, pathJ, idxI, idxJ>>

\* E_tRecon = reconstructInitialPulse(savePath)
ReconstructInitialPulse ==
    /\ pc = "finished"
    /\ recon' = reconstructInitialPulse(Val(disk.pulse).attr, Val(disk.pulse).data)
    /\ pc' = "reconstructed"
    /\ UNCHANGED <<pulse, source, input, args, i, disk, calls, log, error, load,
                   pathI, pathJ, idxI, idxJ>>

Next ==
    \/ Construct
    \/ UserSetSourceField
    \/ CallPulsePropagate
    \/ CreateSimulationDirectory
    \/ SaveSimulation
    \/ SavePulse
    \/ LoopIteration
    \/ LoopExit
    \/ ReconstructInitialPulse

Spec == Init /\ [][Next]_vars

----------------------------------------------------------------------------
(* getFpPath as a function of its arguments: the paths of two indices      *)
(* under one root                                                          *)

InitPath ==
    /\ pc = "getFpPath"
    /\ idxI \in 0..MaxIndex
    /\ idxJ = 0
    /\ pathI = None
    /\ pathJ = None
    /\ pulse = None /\ source = None /\ input = None /\ args = None
    /\ i = 0 /\ disk = EmptyDisk /\ calls = <<>> /\ log = <<>>
    /\ error = NoError /\ recon = None /\ load = None

GetFpPaths ==
    /\ pc = "getFpPath"
    /\ \E root \in SavePaths, j \in 0..MaxIndex :
        /\ args' = [savePath |-> root]
        /\ idxJ' = j
        /\ pathI' = getFpPath(root, idxI)
        /\ pathJ' = getFpPath(root, j)
    /\ pc' = "paths"
    /\ UNCHANGED <<pulse, source, input, i, disk, calls, log, error, recon, load, idxI>>

NextPath == GetFpPaths

SpecPath == InitPath /\ [][NextPath]_vars

----------------------------------------------------------------------------
(* loadZAtPlane over the output of a finished run *)

PlaneLists == {<<>>, SavedPlanes(<<"source">>), SavedPlanes(Planes)}
IndArgs == {None} \cup {Some(k) : k \in 0..MaxPlaneInd}
NameArgs == {None, Some("source"), Some("screen"), Some("absent")}

InitLoad ==
    /\ pc = "load"
    /\ \E sp \in SavePaths, pl \in PlaneLists, present \in BOOLEAN :
        /\ args = [savePath |-> sp]
        /\ disk = [EmptyDisk EXCEPT !.root = TRUE,
                                    !.dirs = IF present THEN {getFpPath(sp, 0)} ELSE {},
                                    !.planes = IF present THEN pl ELSE <<>>]
    /\ load = None
    /\ pulse = None /\ source = None /\ input = None
    /\ i = 0 /\ calls = <<>> /\ log = <<>>
    /\ error = NoError /\ recon = None
    /\ pathI = None /\ pathJ = None /\ idxI = 0 /\ idxJ = 0

\* z = loadZAtPlane(savePath, ind, name)
LoadZAtPlane ==
    /\ pc \in {"load", "loaded"}
    /\ \E ind \in IndArgs, name \in NameArgs :
        LET r == loadZAtPlane(disk, args.savePath, ind, name)
        IN  load' = [ind |-> ind, name |-> name, lookups |-> r.lookups,
                     loads |-> r.loads, z |-> r.z, err |-> r.err]
    /\ pc' = "loaded"
    /\ UNCHANGED <<pulse, source, input, args, i, disk, calls, log, error, recon,
                   pathI, pathJ, idxI, idxJ>>

NextLoad == LoadZAtPlane

SpecLoad == InitLoad /\ [][NextLoad]_vars

----------------------------------------------------------------------------
(* Properties *)

\* A Pulse object exists: the constructor returned
HasPulse ==
    \/ pc \in {"constructed", "createSimulationDirectory", "saveSimulation",
               "savePulse", "loop", "finished", "reconstructed"}
    \/ pc = "raised" /\ error \in {"OSError", "EngineError"}

Finished == pc \in {"finished", "reconstructed"}

\* The decomposition is looked at when the constructor has returned and
\* again when pulsePropagate has returned
Decomposed == pc \in {"constructed", "finished"}

\* C1: the engine is invoked once per index 0..Nf-1 in increasing order; the
\* j-th invocation gets lam_t[j], the plane list, the output location of j
\* and the caller's threads and cylSymmetry
C1_OneCallPerIndexInOrder ==
    /\ \A j \in 1..Len(calls) :
        /\ j <= pulse.Nf
        /\ calls[j].lam = At(pulse.lam_t, j - 1)
        /\ calls[j].planes = Planes
        /\ calls[j].path = getFpPath(args.savePath, j - 1)
        /\ calls[j].threads = args.threads
        /\ calls[j].cylSymmetry = args.cylSymmetry
    /\ pc = "loop" => Len(calls) = i
    /\ Finished => Len(calls) = pulse.Nf

C1_Witness == Finished /\ Len(calls) >= 3 /\ args.threads = 4 /\ args.cylSymmetry

\* C2: no Pulse with Nf = 0 is produced and pulsePropagate never finishes a
\* run of zero frequencies
C2_EmptyWindowIsFatal ==
    /\ HasPulse => pulse.Nf > 0
    /\ Finished => Len(calls) > 0

\* C3: when the window selects every DFT bin, reconstructInitialPulse
\* returns the samples E_t the pulse was constructed from
C3_LosslessRoundTrip ==
    (pc = "reconstructed" /\ pulse.k_prop = [k \in 1..pulse.Nt |-> k - 1])
        => recon = Val(input.E_t)

C3_Witness ==
    /\ pc = "reconstructed"
    /\ pulse.Nt = 3
    /\ pulse.Nf = 3
    /\ recon = <<CGauss(0, 1), CGauss(1, 0), CGauss(0, 0)>>

\* The bins k whose sign-flipped frequency lies in the open window
BinsInWindow ==
    LET ft_DFT == fftfreq(pulse.Nt, pulse.dt)
    IN  {k \in 0..(pulse.Nt - 1) :
            /\ RLess(RSub(pulse.f_0, pulse.Df_t), RNeg(At(ft_DFT, k)))
            /\ RLess(RNeg(At(ft_DFT, k)), RAdd(pulse.f_0, pulse.Df_t))}

Range(seq) == {seq[k] : k \in 1..Len(seq)}

\* C4: the selected frequencies are exactly the bins k with -ft_DFT[k]
\* strictly inside (f_0 - Df_t, f_0 + Df_t), and Nf counts them
C4_WindowIsOpenInterval ==
    Decomposed =>
        LET ft_DFT == fftfreq(pulse.Nt, pulse.dt)
            bins == BinsInWindow
        IN  /\ Range(pulse.k_prop) = bins
            /\ pulse.Nf = Cardinality(bins)
            /\ Range(pulse.f_t) = {RNeg(At(ft_DFT, k)) : k \in bins}

\* a bin lies on each boundary of the window and another strictly inside
C4_Witness ==
    /\ HasPulse
    /\ pulse.Nf >= 1
    /\ \E k \in 0..(pulse.Nt - 1) :
        RNeg(At(fftfreq(pulse.Nt, pulse.dt), k)) = RSub(pulse.f_0, pulse.Df_t)
    /\ \E k \in 0..(pulse.Nt - 1) :
        RNeg(At(fftfreq(pulse.Nt, pulse.dt), k)) = RAdd(pulse.f_0, pulse.Df_t)

\* C5: f_t, U_t and k_prop have length Nf and are aligned: k_prop is a
\* strictly increasing sequence of bins, f_t[j] = -ft_DFT[k_prop[j]] and
\* U_t[j] is the coefficient of the full transform at bin k_prop[j]
C5_IndexFidelity ==
    Decomposed =>
        LET ft_DFT == fftfreq(pulse.Nt, pulse.dt)
            U_t_full == calculateFieldCoefficients(Val(input.E_t), pulse.Nt)
        IN  /\ Len(pulse.f_t) = pulse.Nf
            /\ Len(pulse.U_t) = pulse.Nf
            /\ Len(pulse.k_prop) = pulse.Nf
            /\ \A j \in 0..(pulse.Nf - 1) :
                /\ At(pulse.k_prop, j) \in 0..(pulse.Nt - 1)
                /\ j > 0 => At(pulse.k_prop, j - 1) < At(pulse.k_prop, j)
                /\ At(pulse.f_t, j) = RNeg(At(ft_DFT, At(pulse.k_prop, j)))
                /\ At(pulse.U_t, j) = At(U_t_full, At(pulse.k_prop, j))

\* a proper selection with a gap: bins 0, 2 and 3 of 4
C5_Witness ==
    /\ HasPulse
    /\ pulse.k_prop = <<0, 2, 3>>
    /\ At(pulse.U_t, 1) # At(pulse.U_t, 2)

DependentSources == {[kind |-> "dependent", name |-> "src", E |-> f] : f \in SrcFields}

\* C6: at the j-th engine invocation the source holds U_t[j] * E_xy for the
\* profile the source held at construction, whatever was set before, and
\* E_xy is never changed; a wavelength-dependent source is left as it is
C6_SourceFieldPerFrequency ==
    /\ \A j \in 1..Len(calls) :
        calls[j].field = ArrScale(At(pulse.U_t, j - 1), input.srcE)
    /\ HasPulse =>
        /\ pulse.E_xy = input.srcE
        /\ \A idx \in 0..(pulse.Nf - 1) : \A d \in DependentSources :
            setSourceField(pulse, d, idx) = d

\* the script set the field itself, then two invocations with other fields
C6_Witness ==
    /\ Len(calls) >= 2
    /\ calls[1].field # input.srcE
    /\ calls[2].field # calls[1].field
    /\ calls[2].field # input.srcE

FinishedMessage == <<"Finished pulse propagation simulation">>

\* C7: when the engine raises at index i the exception reaches the caller:
\* nothing runs afterwards, index i was invoked once and no later index,
\* no finish is logged and the locations of the indices below i stay
C7_EngineFailureAborts ==
    error = "EngineError" =>
        /\ pc = "raised"
        /\ ~ENABLED Next
        /\ Len(calls) = i + 1
        /\ \A j \in 1..Len(calls) : calls[j].path = getFpPath(args.savePath, j - 1)
        /\ \A k \in 1..Len(log) : log[k] # FinishedMessage
        /\ \A j \in 0..(i - 1) : getFpPath(args.savePath, j) \in disk.dirs

C7_Witness == error = "EngineError" /\ i = 2 /\ pulse.Nf = 4

\* C9: simulation.json and the pulse archive are on disk before the first
\* engine invocation, and a failed write ends the run without an invocation
C9_SavedBeforePropagation ==
    /\ Len(calls) > 0 =>
        /\ disk.sim = Some(SimulationFile(args.cylSymmetry))
        /\ disk.pulse = Some(getSaveData(pulse, [kind |-> "independent", name |-> "src"]))
    /\ error = "OSError" => (pc = "raised" /\ calls = <<>> /\ ~ENABLED Next)
    /\ (pc = "loop" /\ calls = <<>>) => (disk.sim # None /\ disk.pulse # None)

C9_Witness == pc = "loop" /\ Len(calls) = 1 /\ disk.sim # None /\ disk.pulse # None

\* the part of a path after the "f_" prefix
IndexWidth(root, path) == Len(path) - Len(PathJoin(root, <<"f", "_">>))

\* C8 as stated: the index is written with exactly two digits and the
\* locations of distinct indices differ
C8_FixedWidthDistinct ==
    pc = "paths" =>
        /\ IndexWidth(args.savePath, pathI) = 2
        /\ idxI # idxJ => pathI # pathJ

\* C8: the index is zero-padded to at least two digits (three from 100 on)
\* and the locations of distinct indices under one root differ
C8_PaddedDistinct ==
    pc = "paths" =>
        /\ IndexWidth(args.savePath, pathI) = (IF idxI < 100 THEN 2 ELSE 3)
        /\ idxI < 10 => pathI[Len(pathI) - 1] = "0"
        /\ idxI # idxJ => pathI # pathJ
        /\ idxI = idxJ => pathI = pathJ

C8_Witness == pc = "paths" /\ idxI = 100 /\ idxJ = 0 /\ args.savePath = <<"o", "u", "t">>

\* C10: with neither ind nor name loadZAtPlane raises before the engine is
\* asked anything; a given ind is loaded as it is and no name is looked up;
\* the name is looked up only when ind is absent
C10_PlaneResolution ==
    pc = "loaded" =>
        /\ (load.ind = None /\ load.name = None) =>
            (load.err = "RuntimeError" /\ load.lookups = <<>> /\ load.loads = <<>>)
        /\ load.ind # None => (load.lookups = <<>> /\ load.loads = <<Val(load.ind)>>)
        /\ (load.ind = None /\ load.name # None) => load.lookups = <<Val(load.name)>>
        /\ load.err = "RuntimeError" => (load.ind = None /\ load.name = None)

\* index 0 and a name are both given: plane 0 is loaded, nothing looked up
C10_Witness ==
    /\ pc = "loaded"
    /\ load.ind = Some(0)
    /\ load.name = Some("screen")
    /\ load.z = Some(5)

====
